---- MODULE Spec2Model ----
(***************************************************************************)
(* Model of the daily check-in bot (index.js): the retrying HTTP client,   *)
(* the per-account pipeline processAccount, the batch runner               *)
(* processAllAccounts and the outer loop main.                             *)
(*                                                                         *)
(* The event loop of Node.js runs one callback at a time, so every action  *)
(* below is one callback run to completion: the arrival of an HTTP         *)
(* response (or error) with everything the awaiting code does until it     *)
(* next waits for the network or for a timer, or the firing of a timer.    *)
(***************************************************************************)
EXTENDS Integers, Sequences, FiniteSets, TLC

VARIABLES
    config,      \* config.json, read once at start-up
    phase,       \* where main/processAllAccounts stands
    rerun,       \* TRUE once main() has been entered again by the next-run timer
    tokens,      \* processAllAccounts: tokens
    proxies,     \* processAllAccounts: proxies
    i,           \* processAllAccounts: loop index (0-based, as in the code)
    results,     \* processAllAccounts: results
    st,          \* per account of the batch: "idle", "inflight", "retrywait", "returned"
    clients,     \* per account of the batch: the axios instance made for it
    calls,       \* logical calls made so far by the processAccount in progress (or last finished)
    req,         \* axios-retry state of the logical request in progress
    lastResult,  \* <<result>> of the processAccount that returned last in this batch
    timers,      \* pending setTimeout timers
    waits,       \* inter-account waits started in this batch
    sent         \* HTTP attempts sent by the processAccount in progress (all, and POSTs)

vars == <<config, phase, rerun, tokens, proxies, i, results, st, clients, calls,
          req, lastResult, timers, waits, sent>>

-----------------------------------------------------------------------------
(* Bounds of the model *)

MaxTokens == 2        \* data.txt holds 0..MaxTokens tokens
MaxProxies == 2       \* proxy.txt holds 0..MaxProxies proxies
MaxRetriesBound == 2  \* config.maxRetries ranges over 0..MaxRetriesBound

\* Values config.json may hold (the file is an input of the program).
RetryDelayChoices == {1000, 1500}       \* config.retryDelay (ms)
AccountDelayChoices == {5000}           \* config.delayBetweenAccounts (ms)
NextRunHoursChoices == {25}             \* config.nextRunDelayHours

Accounts == 1..MaxTokens

-----------------------------------------------------------------------------
(* HTTP attempts and their outcomes *)

\* HTTP statuses a server answers with; axios resolves 2xx and rejects the rest.
HttpStatuses == {200, 400, 429, 500, 501, 502, 503, 504}

\* error.code of a failure without response: a connection reset, or a timeout.
NetCodes == {"ECONNRESET", "ECONNABORTED"}

\* response.data of a 2xx answer: its code and the "Daily Check-in" entry of actsMap.
BodyCodes == {200, 401}
Bodies == [code : BodyCodes, checkin : {"done", "notdone", "missing"}]
NoBody == [code |-> 0, checkin |-> "missing"]

Outcomes ==
    [kind : {"response"}, status : {200}, code : {"none"}, body : Bodies]
    \cup [kind : {"response"}, status : HttpStatuses \ {200}, code : {"none"}, body : {NoBody}]
    \cup [kind : {"noresponse"}, status : {0}, code : NetCodes, body : {NoBody}]

NoError == [kind |-> "none", status |-> 0, code |-> "none", body |-> NoBody]

\* axios default validateStatus
HttpOk(out) == out.kind = "response" /\ out.status >= 200 /\ out.status < 300

-----------------------------------------------------------------------------
(* createAxiosInstance: the retry policy handed to axios-retry *)

\* axiosRetry.isNetworkError: no response, an error code, and not a timeout/abort.
IsNetworkError(error) ==
    error.kind = "noresponse" /\ error.code # "none" /\ error.code # "ECONNABORTED"

\* axiosRetry.isRetryableError: not a timeout/abort, and no response or a 5xx one.
IsRetryableError(error) ==
    /\ error.code # "ECONNABORTED"
    /\ \/ error.kind = "noresponse"
       \/ (error.status >= 500 /\ error.status <= 599)

RetryStatuses == {429, 500, 502, 503, 504}

\* retryCondition
RetryCondition(error) ==
    \/ IsNetworkError(error)
    \/ IsRetryableError(error)
    \/ (error.kind = "response" /\ error.status \in RetryStatuses)

\* axios-retry retries while the request's retryCount is below `retries`.
ShouldRetryOffByOne(error, retryCount) ==
    RetryCondition(error) /\ retryCount <= config.maxRetries

ShouldRetryUnbounded(error, retryCount) == RetryCondition(error)

ShouldRetry(error, retryCount) ==
    RetryCondition(error) /\ retryCount < config.maxRetries

\* retryDelay: Math.pow(2, retryCount) * config.retryDelay
RetryDelayFromBase(retryCount) == (2 ^ (retryCount - 1)) * config.retryDelay

RetryDelay(retryCount) == (2 ^ retryCount) * config.retryDelay

\* error.message of a rejected request
ErrorMessage(error) ==
    IF error.kind = "response"
    THEN "Request failed with status code " \o ToString(error.status)
    ELSE IF error.code = "ECONNABORTED" THEN "timeout exceeded"
    ELSE "read " \o error.code

Null == 0

\* The instance made for one account: its token header and its proxy agent.
CreateAxiosInstance(token, proxy) ==
    [token |-> token, agent |-> IF proxy # Null THEN proxy ELSE Null]

NoClient == [token |-> Null, agent |-> Null]

\* A new logical request of the instance: axios-retry starts it with retryCount 0.
NewRequest(step) ==
    [step |-> step,
     method |-> IF step = "checkin" THEN "POST" ELSE "GET",
     retryCount |-> 0,
     attempts |-> 1,
     delays |-> <<>>,
     lastErr |-> NoError,
     outcome |-> "pending"]

NoRequest ==
    [step |-> "none", method |-> "none", retryCount |-> 0, attempts |-> 0,
     delays |-> <<>>, lastErr |-> NoError, outcome |-> "none"]

-----------------------------------------------------------------------------
(* checkAccountStatus and performDailyCheckin on a 2xx response *)

\* checkAccountStatus: throws on a body code other than 200 and on a missing
\* "Daily Check-in" entry; otherwise returns isCheckedIn = dailyCheckin.done.
CheckAccountStatus(out) ==
    IF out.body.code # 200
    THEN [ok |-> FALSE, isCheckedIn |-> FALSE,
          message |-> "Invalid response code: " \o ToString(out.body.code)]
    ELSE IF out.body.checkin = "missing"
    THEN [ok |-> FALSE, isCheckedIn |-> FALSE,
          message |-> "Cannot read properties of undefined (reading 'done')"]
    ELSE [ok |-> TRUE, isCheckedIn |-> (out.body.checkin = "done"), message |-> ""]

\* performDailyCheckin: throws on a body code other than 200, else returns true.
PerformDailyCheckin(out) ==
    IF out.body.code # 200
    THEN [ok |-> FALSE, message |-> "Invalid response code: " \o ToString(out.body.code)]
    ELSE [ok |-> TRUE, message |-> ""]

-----------------------------------------------------------------------------
(* processAccount: what follows each call *)

\* After the first status check: return at once when already checked in.
AfterStatusAlwaysCheckin(isCheckedIn) == "checkin"

AfterStatus(isCheckedIn) == IF isCheckedIn THEN "return" ELSE "checkin"

\* After the verifying status check.
VerifyResultAlwaysSuccess(verifyCheckedIn) ==
    [success |-> TRUE, alreadyCheckedIn |-> FALSE]

VerifyResult(verifyCheckedIn) ==
    IF ~verifyCheckedIn
    THEN [success |-> FALSE, error |-> "Verification failed"]
    ELSE [success |-> TRUE, alreadyCheckedIn |-> FALSE]

\* return { success: true, alreadyCheckedIn: true }
AlreadyResultNotFlagged == [success |-> TRUE, alreadyCheckedIn |-> FALSE]

AlreadyResult == [success |-> TRUE, alreadyCheckedIn |-> TRUE]

\* The catch block of processAccount.
FailedResult(message) == [success |-> FALSE, error |-> message]

-----------------------------------------------------------------------------
(* processAllAccounts *)

\* loadTokens / loadProxies: the trimmed, non-comment lines of the file; a line is
\* identified by its position.
FileLines(n) == [k \in 1..n |-> k]

LoadProxies(exists, n) ==
    IF ~config.useProxy THEN <<>>
    ELSE IF ~exists THEN <<>>
    ELSE FileLines(n)

\* const proxy = config.useProxy && i < proxies.length ? proxies[i] : null
ProxyForFirst(idx, prox) ==
    IF config.useProxy /\ 0 < Len(prox) THEN prox[1] ELSE Null

ProxyFor(idx, prox) ==
    IF config.useProxy /\ idx < Len(prox) THEN prox[idx + 1] ELSE Null

\* the tally of one result
TallyDroppingFailures(res, result) ==
    IF result.success
    THEN [res EXCEPT !.successful = @ + 1,
                     !.alreadyCheckedIn = IF result.alreadyCheckedIn THEN @ + 1 ELSE @]
    ELSE res

Tally(res, result) ==
    IF result.success
    THEN [res EXCEPT !.successful = @ + 1,
                     !.alreadyCheckedIn = IF result.alreadyCheckedIn THEN @ + 1 ELSE @]
    ELSE [res EXCEPT !.failed = @ + 1]

\* if (i < tokens.length - 1): a delay follows every account but the last
NeedsDelayAlways(idx, n) == idx < n

NeedsDelayNever(idx, n) == FALSE

NeedsDelay(idx, n) == idx < n - 1

\* i++ of the for loop
NextIndexRepeating(idx) == idx

NextIndex(idx) == idx + 1

AccountTimer == [kind |-> "account", ms |-> config.delayBetweenAccounts]

\* await new Promise(resolve => setTimeout(resolve, config.delayBetweenAccounts))
AccountTimersNone == {}

AccountTimers == {AccountTimer}

\* main: const nextRunDelay = config.nextRunDelayHours * 60 * 60 * 1000; setTimeout(...)
NextRunTimersNone == {}

NextRunTimers == {[kind |-> "nextRun", ms |-> config.nextRunDelayHours * 60 * 60 * 1000]}

RetryTimer(ms) == [kind |-> "retry", ms |-> ms]

SetLast(seq, v) == [seq EXCEPT ![Len(seq)] = v]

Call(method, outcome) == [method |-> method, outcome |-> outcome]

\* The record of a status check that returned r.
StatusCall(r) == Call("GET", IF r.isCheckedIn THEN "done" ELSE "notdone")

-----------------------------------------------------------------------------
(* State after start-up: config.json is read and main() has been called. *)

Configs ==
    [useProxy : BOOLEAN,
     maxRetries : 0..MaxRetriesBound,
     retryDelay : RetryDelayChoices,
     delayBetweenAccounts : AccountDelayChoices,
     nextRunDelayHours : NextRunHoursChoices]

NoResults == [total |-> 0, successful |-> 0, failed |-> 0, alreadyCheckedIn |-> 0]

\* const results = { total: tokens.length, successful: 0, failed: 0, alreadyCheckedIn: 0 }
NewResultsCarried(n) == [results EXCEPT !.total = n]

NewResults(n) == [NoResults EXCEPT !.total = n]

\* The attempts sent for an account, and those of them that are POSTs.
NoSent == [attempts |-> 0, posts |-> 0]

SendAttempt(s, method) ==
    [attempts |-> s.attempts + 1,
     posts |-> IF method = "POST" THEN s.posts + 1 ELSE s.posts]

Init ==
    /\ config \in Configs
    /\ phase = "loading"
    /\ rerun = FALSE
    /\ tokens = <<>>
    /\ proxies = <<>>
    /\ i = 0
    /\ results = NoResults
    /\ st = [a \in Accounts |-> "idle"]
    /\ clients = [a \in Accounts |-> NoClient]
    /\ calls = <<>>
    /\ req = NoRequest
    /\ lastResult = <<>>
    /\ timers = {}
    /\ waits = 0
    /\ sent = NoSent

-----------------------------------------------------------------------------
(* processAccount(tokens[idx], proxy, idx + 1) up to its first await: the  *)
(* instance is created and the first status GET is sent.  st0 and cl0 are  *)
(* the per-account records before the call.                                *)
StartAccount(idx, toks, prox, st0, cl0) ==
    /\ i' = idx
    /\ phase' = "processing"
    /\ clients' = [cl0 EXCEPT ![idx + 1] = CreateAxiosInstance(toks[idx + 1], ProxyFor(idx, prox))]
    /\ st' = [st0 EXCEPT ![idx + 1] = "inflight"]
    /\ calls' = <<Call("GET", "pending")>>
    /\ req' = NewRequest("status")
    /\ sent' = SendAttempt(NoSent, "GET")

\* return results; the summary; setTimeout(main, nextRunDelay)
FinishBatch ==
    /\ phase' = "sleeping"
    /\ timers' = NextRunTimers

(* processAllAccounts from its start to the first request: both files are  *)
(* read, results is made, and the loop starts with account 0.  A missing   *)
(* or unreadable data.txt ends the process.                                *)
LoadLists ==
    /\ phase = "loading"
    /\ \E tokensReadable \in BOOLEAN, n \in 0..MaxTokens,
          proxyReadable \in BOOLEAN, m \in 0..MaxProxies :
         IF ~tokensReadable
         THEN /\ phase' = "exited"
              /\ UNCHANGED <<config, rerun, tokens, proxies, i, results, st, clients,
                             calls, req, lastResult, timers, waits, sent>>
         ELSE /\ tokens' = FileLines(n)
              /\ proxies' = LoadProxies(proxyReadable, m)
              /\ results' = NewResults(n)
              /\ lastResult' = <<>>
              /\ waits' = 0
              /\ IF 0 < n
                 THEN /\ StartAccount(0, tokens', proxies',
                                      [a \in Accounts |-> "idle"],
                                      [a \in Accounts |-> NoClient])
                      /\ UNCHANGED timers
                 ELSE /\ FinishBatch
                      /\ i' = 0
                      /\ st' = [a \in Accounts |-> "idle"]
                      /\ clients' = [a \in Accounts |-> NoClient]
                      /\ calls' = <<>>
                      /\ req' = NoRequest
                      /\ sent' = NoSent
              /\ UNCHANGED <<config, rerun>>

(* processAccount returns `result`: the tally, then the inter-account      *)
(* delay, or after the last account the summary and the next-run timer.    *)
Return(result) ==
    /\ lastResult' = <<result>>
    /\ results' = Tally(results, result)
    /\ st' = [st EXCEPT ![i + 1] = "returned"]
    /\ IF NeedsDelay(i, Len(tokens))
       THEN /\ phase' = "waiting"
            /\ timers' = AccountTimers
            /\ waits' = waits + 1
       ELSE /\ FinishBatch
            /\ waits' = waits
    /\ sent' = NoSent
    /\ UNCHANGED <<config, rerun, tokens, proxies, i, clients>>

\* The request is rejected with `error`: checkAccountStatus / performDailyCheckin
\* rethrow it and the catch block of processAccount returns the failed result.
RejectAborting(error) ==
    /\ calls' = SetLast(calls, Call(req.method, "failed"))
    /\ req' = [req EXCEPT !.lastErr = error, !.outcome = "rejected"]
    /\ st' = [st EXCEPT ![i + 1] = "returned"]
    /\ phase' = "exited"
    /\ UNCHANGED <<config, rerun, tokens, proxies, i, results, clients, lastResult,
                   timers, waits, sent>>

Reject(error) ==
    /\ calls' = SetLast(calls, Call(req.method, "failed"))
    /\ req' = [req EXCEPT !.lastErr = error, !.outcome = "rejected"]
    /\ Return(FailedResult(ErrorMessage(error)))

\* The request is answered, and checkAccountStatus / performDailyCheckin throws
\* on the answer: the catch block of processAccount returns the failed result.
ThrowRetrying(message) ==
    /\ req' = [req EXCEPT !.outcome = "resolved",
                          !.retryCount = @ + 1,
                          !.delays = Append(@, RetryDelay(req.retryCount + 1))]
    /\ timers' = {RetryTimer(RetryDelay(req.retryCount + 1))}
    /\ st' = [st EXCEPT ![i + 1] = "retrywait"]
    /\ UNCHANGED <<config, phase, rerun, tokens, proxies, i, results, clients,
                   calls, lastResult, waits, sent>>

Throw(message) ==
    /\ calls' = SetLast(calls, Call(req.method, "failed"))
    /\ req' = [req EXCEPT !.outcome = "resolved"]
    /\ Return(FailedResult(message))

\* The request is answered and processAccount returns `result`.
Finish(done, result) ==
    /\ calls' = SetLast(calls, done)
    /\ req' = [req EXCEPT !.outcome = "resolved"]
    /\ Return(result)

\* The next logical request of the same processAccount is sent.
Send(step, done) ==
    /\ calls' = Append(SetLast(calls, done), Call(NewRequest(step).method, "pending"))
    /\ req' = NewRequest(step)
    /\ sent' = SendAttempt(sent, NewRequest(step).method)
    /\ UNCHANGED <<config, phase, rerun, tokens, proxies, i, results, st, clients,
                   lastResult, timers, waits>>

(* An attempt fails (non-2xx, network error or timeout): axios-retry       *)
(* either arms a retry timer or lets the error reach the caller.           *)
AttemptFails(error) ==
    IF ShouldRetry(error, req.retryCount)
    THEN /\ req' = [req EXCEPT !.retryCount = @ + 1,
                               !.delays = Append(@, RetryDelay(req.retryCount + 1)),
                               !.lastErr = error]
         /\ timers' = {RetryTimer(RetryDelay(req.retryCount + 1))}
         /\ st' = [st EXCEPT ![i + 1] = "retrywait"]
         /\ UNCHANGED <<config, phase, rerun, tokens, proxies, i, results, clients,
                        calls, lastResult, waits, sent>>
    ELSE Reject(error)

InFlight(step) ==
    /\ phase = "processing"
    /\ st[i + 1] = "inflight"
    /\ req.step = step

\* The first status GET is answered.
StatusResponds ==
    /\ InFlight("status")
    /\ \E out \in Outcomes :
         IF ~HttpOk(out) THEN AttemptFails(out)
         ELSE LET r == CheckAccountStatus(out) IN
              IF ~r.ok THEN Throw(r.message)
              ELSE IF AfterStatus(r.isCheckedIn) = "return"
              THEN Finish(StatusCall(r), AlreadyResult)
              ELSE Send("checkin", StatusCall(r))

\* The check-in POST is answered.
CheckinResponds ==
    /\ InFlight("checkin")
    /\ \E out \in Outcomes :
         IF ~HttpOk(out) THEN AttemptFails(out)
         ELSE LET r == PerformDailyCheckin(out) IN
              IF ~r.ok THEN Throw(r.message)
              ELSE Send("verify", Call("POST", "ok"))

\* The verifying status GET is answered.
VerifyResponds ==
    /\ InFlight("verify")
    /\ \E out \in Outcomes :
         IF ~HttpOk(out) THEN AttemptFails(out)
         ELSE LET r == CheckAccountStatus(out) IN
              IF ~r.ok THEN Throw(r.message)
              ELSE Finish(StatusCall(r), VerifyResult(r.isCheckedIn))

\* The retry timer of axios-retry fires: the request is sent again.
RetryFires ==
    /\ phase = "processing"
    /\ st[i + 1] = "retrywait"
    /\ \E t \in timers :
         /\ t.kind = "retry"
         /\ timers' = timers \ {t}
    /\ st' = [st EXCEPT ![i + 1] = "inflight"]
    /\ req' = [req EXCEPT !.attempts = @ + 1, !.lastErr = NoError]
    /\ sent' = SendAttempt(sent, req.method)
    /\ UNCHANGED <<config, phase, rerun, tokens, proxies, i, results, clients, calls,
                   lastResult, waits>>

\* The inter-account delay ends: the loop goes on with the next account.
AccountDelayFires ==
    /\ phase = "waiting"
    /\ AccountTimer \in timers
    /\ timers' = timers \ {AccountTimer}
    /\ StartAccount(NextIndex(i), tokens, proxies, st, clients)
    /\ lastResult' = <<>>
    /\ UNCHANGED <<config, rerun, tokens, proxies, results, waits>>

\* The next-run timer fires: main() is called again.  The locals of the
\* processAllAccounts call that returned are gone; the summary it returned
\* stays the last one made until the new call makes its own results.
NextRunFires ==
    /\ phase = "sleeping"
    /\ \E t \in timers :
         /\ t.kind = "nextRun"
         /\ timers' = timers \ {t}
    /\ phase' = "loading"
    /\ rerun' = TRUE
    /\ tokens' = <<>>
    /\ proxies' = <<>>
    /\ i' = 0
    /\ st' = [a \in Accounts |-> "idle"]
    /\ clients' = [a \in Accounts |-> NoClient]
    /\ calls' = <<>>
    /\ req' = NoRequest
    /\ lastResult' = <<>>
    /\ waits' = 0
    /\ sent' = NoSent
    /\ UNCHANGED <<config, results>>

Next ==
    \/ LoadLists
    \/ StatusResponds
    \/ CheckinResponds
    \/ VerifyResponds
    \/ RetryFires
    \/ AccountDelayFires
    \/ NextRunFires

Spec == Init /\ [][Next]_vars

\* Every HTTP attempt completes and every timer fires.
FairSpec == Spec /\ WF_vars(Next)

-----------------------------------------------------------------------------
(* Claims *)

Cur == i + 1    \* the account number (accountIndex) of loop index i

Busy(a) == st[a] \in {"inflight", "retrywait"}

\* C1: within one batch the logical calls of an account follow the order
\* GET status -> POST check-in -> GET status: the POST comes only after a status
\* GET that succeeded and reported "not done", the verifying GET only after a
\* POST that succeeded, nothing comes after the verifying GET, and an account
\* that has returned sends nothing more in that batch.
CallsInOrder ==
    /\ Len(calls) <= 3
    /\ Len(calls) >= 1 => calls[1].method = "GET"
    /\ Len(calls) >= 2 => calls[2].method = "POST" /\ calls[1] = Call("GET", "notdone")
    /\ Len(calls) >= 3 => calls[3].method = "GET" /\ calls[2] = Call("POST", "ok")
    /\ \A k \in 1..Len(calls) : calls[k].outcome = "pending" => k = Len(calls) /\ Busy(Cur)

C1_CallOrder ==
    /\ []CallsInOrder
    /\ [][phase' # "loading" =>
            /\ \A a \in Accounts : st[a] = "returned" => st'[a] = "returned"
            /\ st[Cur] = "returned" /\ i' = i => calls' = calls]_vars

C1_Witness ==
    /\ Len(calls) = 3
    /\ calls[3] = Call("GET", "done")
    /\ st[Cur] = "returned"

\* C2: when the first status check succeeds and reports the check-in as done,
\* processAccount sends no POST and no second GET and returns
\* {success: true, alreadyCheckedIn: true}.
C2_AlreadyCheckedIn ==
    (Len(calls) >= 1 /\ calls[1] = Call("GET", "done")) =>
        /\ Len(calls) = 1
        /\ st[Cur] = "returned"
        /\ lastResult = <<[success |-> TRUE, alreadyCheckedIn |-> TRUE]>>

C2_Witness ==
    /\ calls = <<Call("GET", "done")>>
    /\ st[Cur] = "returned"
    /\ results.alreadyCheckedIn >= 1

\* C3: an account is reported {success: true, alreadyCheckedIn: false} only if
\* its POST succeeded and the status GET after it reported done; when the POST
\* succeeded and the verifying GET reports not done, the account is reported
\* failed with error 'Verification failed'.
C3_VerifiedSuccess ==
    /\ (/\ lastResult # <<>>
        /\ lastResult[1].success
        /\ ~lastResult[1].alreadyCheckedIn)
         => calls = <<Call("GET", "notdone"), Call("POST", "ok"), Call("GET", "done")>>
    /\ (/\ Len(calls) = 3
        /\ calls[2] = Call("POST", "ok")
        /\ calls[3] = Call("GET", "notdone"))
         => lastResult = <<[success |-> FALSE, error |-> "Verification failed"]>>

C3_Witness ==
    /\ lastResult = <<[success |-> FALSE, error |-> "Verification failed"]>>
    /\ results.failed >= 1
    /\ results.successful - results.alreadyCheckedIn >= 1

\* C4: a failed attempt is retried exactly when the failure is a network error
\* or a response whose status is 429, 500, 502, 503 or 504 (and retries remain);
\* a failure with any other response status is never retried.
ListedFailure(error) ==
    \/ (error.kind = "noresponse" /\ error.code # "ECONNABORTED")
    \/ (error.kind = "response" /\ error.status \in {429, 500, 502, 503, 504})

C4_RetriedExactlyWhenListed ==
    /\ st[Cur] = "retrywait" => ListedFailure(req.lastErr)
    /\ (req.outcome = "rejected" /\ ListedFailure(req.lastErr))
         => req.retryCount >= config.maxRetries

\* C5: a logical request is attempted at most 1 + maxRetries times; when the
\* last permitted attempt fails too, the error is propagated and the account is
\* reported failed.
C5_BoundedRetries ==
    /\ req.attempts <= 1 + config.maxRetries
    /\ req.retryCount <= config.maxRetries
    /\ st[Cur] = "retrywait" => req.attempts <= config.maxRetries
    /\ req.outcome = "rejected" =>
         /\ st[Cur] = "returned"
         /\ lastResult = <<[success |-> FALSE, error |-> ErrorMessage(req.lastErr)]>>
         /\ results.failed >= 1

C5_Witness ==
    /\ config.maxRetries >= 1
    /\ req.attempts = 1 + config.maxRetries
    /\ req.outcome = "rejected"
    /\ req.lastErr.status = 503

\* C6: the delay before the k-th retry of a request is 2^k * config.retryDelay:
\* the first is twice retryDelay, each next one twice the one before, and a new
\* logical request starts again with no retry made.
C6_ExponentialBackoff ==
    /\ Len(req.delays) = req.retryCount
    /\ \A k \in 1..Len(req.delays) :
         /\ req.delays[k] = IF k = 1 THEN 2 * config.retryDelay ELSE 2 * req.delays[k - 1]
         /\ req.delays[k] = (2 ^ k) * config.retryDelay
    /\ \A t \in timers : t.kind = "retry" =>
         /\ req.retryCount >= 1
         /\ t.ms = req.delays[req.retryCount]
    /\ st[Cur] = "inflight" => Len(req.delays) = req.attempts - 1
    /\ st[Cur] = "retrywait" => Len(req.delays) = req.attempts

C6_Witness ==
    /\ req.step = "checkin"
    /\ Len(req.delays) = 2
    /\ \E t \in timers : t.kind = "retry" /\ t.ms = 4 * config.retryDelay

\* C7: accounts are processed one after the other in token-file order: at most
\* one account has a request in flight or a retry pending, and an account is
\* started only when every account before it has returned its result (so while
\* account i + 1 is in progress exactly i results have been tallied).
C7_Sequential ==
    /\ Cardinality({a \in Accounts : Busy(a)}) <= 1
    /\ Cardinality(timers) <= 1
    /\ \A a \in Accounts :
         st[a] # "idle" =>
            /\ a <= Len(tokens)
            /\ \A b \in 1..(a - 1) : st[b] = "returned"
    /\ \A a \in Accounts : Busy(a) =>
         /\ a = Cur
         /\ phase = "processing"
         /\ results.successful + results.failed = a - 1

C7_Witness ==
    /\ st[1] = "returned"
    /\ st[2] = "retrywait"
    /\ results.failed = 1

\* C8: in a batch of n accounts a wait of config.delayBetweenAccounts follows
\* every account but the last, whatever its result; the finished batch has had
\* n - 1 waits when n >= 1 and none when n = 0.
C8_InterAccountWaits ==
    /\ phase = "processing" => waits = i
    /\ phase = "waiting" =>
         /\ waits = i + 1
         /\ i + 1 < Len(tokens)
         /\ st[Cur] = "returned"
         /\ timers = {[kind |-> "account", ms |-> config.delayBetweenAccounts]}
    /\ phase = "sleeping" =>
         /\ waits = IF Len(tokens) >= 1 THEN Len(tokens) - 1 ELSE 0
         /\ \A t \in timers : t.kind # "account"
    /\ (st[Cur] = "returned" /\ i + 1 < Len(tokens)) => phase = "waiting"

C8_Witness ==
    /\ phase = "sleeping"
    /\ Len(tokens) = 2
    /\ waits = 1
    /\ results.failed = 1
    /\ results.successful = 1

\* C9 as stated: after every batch a next batch is scheduled
\* config.nextRunDelayHours hours later and starts, and infinitely many batches
\* are run.
BatchFinished == phase = "sleeping"

BatchStarting == phase = "loading"

C9_InfinitelyManyBatches ==
    /\ BatchFinished ~> BatchStarting
    /\ []<>BatchFinished

\* C9 as amended: after every batch that finishes (whatever its results, also
\* with zero accounts) exactly one next-run timer of nextRunDelayHours hours is
\* pending, main() is entered again when it fires, and batches are run for ever
\* unless the process exits with a critical error (process.exit(1), as when
\* data.txt is missing or unreadable at the start of a batch).
C9_RepeatsUnlessExit ==
    /\ [](BatchFinished =>
            timers = {[kind |-> "nextRun", ms |-> config.nextRunDelayHours * 3600000]})
    /\ BatchFinished ~> BatchStarting
    /\ ([]<>BatchFinished) \/ <>[](phase = "exited")

C9_Witness ==
    /\ rerun
    /\ phase = "sleeping"
    /\ results.total = 2
    /\ results.failed = 2

\* C10: the account at position a of the token list uses the proxy at position
\* a of the proxy list exactly when config.useProxy is true and the list has an
\* entry there, and no proxy otherwise; no proxy entry serves two accounts of a
\* batch, and without useProxy no account uses a proxy.
Created(a) == clients[a] # NoClient

C10_ProxyPerToken ==
    /\ \A a \in Accounts :
         Created(a) <=> st[a] # "idle"
    /\ \A a \in Accounts :
         Created(a) =>
            /\ clients[a].token = tokens[a]
            /\ clients[a].agent =
                 IF config.useProxy /\ a <= Len(proxies) THEN a ELSE Null
    /\ \A a, b \in Accounts :
         (Created(a) /\ Created(b) /\ a # b /\ clients[a].agent # Null)
            => clients[a].agent # clients[b].agent
    /\ ~config.useProxy => \A a \in Accounts : clients[a].agent = Null

C10_Witness ==
    /\ config.useProxy
    /\ Len(proxies) = 1
    /\ clients[1].agent = 1
    /\ Created(2)
    /\ clients[2].agent = Null

\* C11: a failure of one account never aborts the batch: whichever of its calls
\* fails, processAccount returns a failed result, the loop goes on (the
\* inter-account delay is armed when accounts remain), the process never exits
\* once an account of the batch has started, the batch ends only when every
\* account has returned, and the next account is processed too.
LastCallFailed == Len(calls) >= 1 /\ calls[Len(calls)].outcome = "failed"

FailureKeepsBatch ==
    /\ phase = "exited" => \A a \in Accounts : st[a] = "idle"
    /\ LastCallFailed =>
         /\ lastResult # <<>>
         /\ ~lastResult[1].success
         /\ st[Cur] = "returned"
         /\ results.failed >= 1
         /\ IF Cur < Len(tokens)
            THEN /\ phase = "waiting"
                 /\ [kind |-> "account", ms |-> config.delayBetweenAccounts] \in timers
            ELSE phase = "sleeping"
    /\ phase = "sleeping" => \A a \in 1..Len(tokens) : st[a] = "returned"

InBatch == phase \in {"processing", "waiting", "sleeping"}

Returned == {a \in Accounts : st[a] = "returned"}

C12_Tally ==
    InBatch =>
        /\ results.successful + results.failed = Cardinality(Returned)
        /\ results.alreadyCheckedIn <= results.successful
        /\ results.total = Len(tokens)
        /\ Returned \subseteq 1..Len(tokens)
        /\ phase = "sleeping" =>
             /\ results.successful + results.failed = results.total
             /\ Returned = 1..Len(tokens)

C12_Witness ==
    /\ phase = "sleeping"
    /\ results = [total |-> 2, successful |-> 1, failed |-> 1, alreadyCheckedIn |-> 1]

\* C13: batches never overlap: a next-run timer is pending exactly while a
\* finished batch sleeps, there is never more than one, it is armed only when
\* the last account of the batch has returned and nothing else is pending, and
\* main() is entered again only by that timer, which it consumes.
NextRunPending == {t \in timers : t.kind = "nextRun"}

OneTimerPerFinishedBatch ==
    /\ Cardinality(NextRunPending) <= 1
    /\ NextRunPending # {} <=> phase = "sleeping"
    /\ NextRunPending # {} =>
         /\ timers = NextRunPending
         /\ \A a \in Accounts : ~Busy(a)
         /\ \A a \in 1..Len(tokens) : st[a] = "returned"
         /\ results.successful + results.failed = Len(tokens)

C13_NoOverlap ==
    /\ []OneTimerPerFinishedBatch
    /\ [][(phase' = "loading" /\ phase # "loading") =>
            /\ phase = "sleeping"
            /\ NextRunPending # {}
            /\ timers' = {}
            /\ \A a \in Accounts : st'[a] = "idle"]_vars
    /\ [][(NextRunPending' # {} /\ NextRunPending = {}) =>
            /\ phase \in {"loading", "processing"}
            /\ phase = "processing" => Cur = Len(tokens) /\ st[Cur] = "inflight"]_vars

C13_Witness ==
    /\ rerun
    /\ phase = "sleeping"
    /\ Len(tokens) = 2
    /\ Cardinality(timers) = 1
    /\ results.successful = 2

\* C14: an application-level failure (a 2xx answer whose body code is not 200,
\* or a status answer without the daily check-in entry) is not retried: the
\* answered request is never sent again, the account is reported failed at
\* once with the thrown message, and a failed first status check is followed
\* by no POST.
AppMessages ==
    {"Invalid response code: " \o ToString(c) : c \in BodyCodes \ {200}}
    \cup {"Cannot read properties of undefined (reading 'done')"}

AnsweredOnce ==
    /\ \A a \in Accounts : Busy(a) => req.outcome = "pending"
    /\ (req.outcome = "resolved" /\ LastCallFailed) =>
         /\ st[Cur] = "returned"
         /\ lastResult # <<>>
         /\ ~lastResult[1].success
         /\ lastResult[1].error \in AppMessages
         /\ results.failed >= 1
         /\ \A t \in timers : t.kind # "retry"
    /\ (lastResult # <<>> /\ ~lastResult[1].success /\ lastResult[1].error \in AppMessages) =>
         /\ req.outcome = "resolved"
         /\ LastCallFailed
    /\ (Len(calls) >= 1 /\ calls[1].outcome = "failed") => Len(calls) = 1

C14_AppFailureNotRetried ==
    /\ []AnsweredOnce
    /\ [][(req.outcome = "resolved" /\ i' = i /\ phase' # "loading") => req' = req]_vars

C14_Witness ==
    /\ calls = <<Call("GET", "notdone"), Call("POST", "failed")>>
    /\ req.outcome = "resolved"
    /\ req.attempts = 1
    /\ config.maxRetries >= 1
    /\ lastResult = <<[success |-> FALSE, error |-> "Invalid response code: 401"]>>

\* C15: for one account of a batch at most 3 * (1 + maxRetries) HTTP attempts
\* are sent, at most 1 + maxRetries of them POSTs; there is at most one logical
\* POST, so that several POST attempts are always the retries of that one.
LogicalPosts == {k \in 1..Len(calls) : calls[k].method = "POST"}

C15_BoundedAttempts ==
    /\ sent.attempts <= 3 * (1 + config.maxRetries)
    /\ sent.posts <= 1 + config.maxRetries
    /\ Cardinality(LogicalPosts) <= 1
    /\ sent.posts > 0 => LogicalPosts = {2}
    /\ Busy(Cur) =>
         /\ req.step = "status" => sent.posts = 0 /\ sent.attempts = req.attempts
         /\ req.step = "checkin" => sent.posts = req.attempts
         /\ sent.attempts <= Len(calls) * (1 + config.maxRetries)

C15_Witness ==
    /\ config.maxRetries = 2
    /\ sent.attempts = 9
    /\ sent.posts = 3
    /\ st[Cur] = "inflight"

\* C16: every batch terminates: when every HTTP attempt completes and every
\* timer fires, a batch whose lists are loaded reaches the summary (and a
\* batch that is starting reaches it or ends the process on an unreadable
\* data.txt), whatever the answers are.
C16_BatchTerminates ==
    /\ (phase \in {"processing", "waiting"}) ~> (phase = "sleeping")
    /\ (phase = "loading") ~> (phase \in {"sleeping", "exited"})

C16_Witness ==
    /\ phase = "sleeping"
    /\ Len(tokens) = 2
    /\ results.failed = 2
    /\ req.outcome = "rejected"
    /\ req.attempts = 3

\* C17: every batch starts from the beginning with nothing carried over: when
\* the lists are loaded the counters are 0 and total is the number of tokens
\* just loaded, whatever the summary of the batch before was; no wait has been
\* counted, the loop starts at the first account, and every account that
\* starts gets a new client and a first request with no retry made.
BatchStarts == phase = "loading" /\ phase' \notin {"loading", "exited"}

C17_FreshBatch ==
    /\ [][BatchStarts =>
            /\ results' = [total |-> Len(tokens'), successful |-> 0, failed |-> 0,
                           alreadyCheckedIn |-> 0]
            /\ waits' = 0
            /\ timers' \subseteq {[kind |-> "nextRun", ms |-> config.nextRunDelayHours * 3600000]}
            /\ IF Len(tokens') = 0
               THEN /\ phase' = "sleeping"
                    /\ \A a \in Accounts : st'[a] = "idle" /\ clients'[a] = NoClient
               ELSE /\ phase' = "processing"
                    /\ i' = 0
                    /\ st'[1] = "inflight"
                    /\ \A a \in Accounts \ {1} : st'[a] = "idle" /\ clients'[a] = NoClient]_vars
    /\ [][\A a \in Accounts :
            (st[a] = "idle" /\ st'[a] # "idle") =>
                /\ a = i' + 1
                /\ st'[a] = "inflight"
                /\ clients[a] = NoClient
                /\ clients'[a].token = tokens'[a]
                /\ req' = [step |-> "status", method |-> "GET", retryCount |-> 0,
                           attempts |-> 1, delays |-> <<>>, lastErr |-> NoError,
                           outcome |-> "pending"]
                /\ calls' = <<Call("GET", "pending")>>
                /\ sent' = [attempts |-> 1, posts |-> 0]]_vars

C17_Witness ==
    /\ rerun
    /\ phase = "processing"
    /\ i = 0
    /\ results = [total |-> 2, successful |-> 0, failed |-> 0, alreadyCheckedIn |-> 0]
    /\ st = [a \in Accounts |-> IF a = 1 THEN "inflight" ELSE "idle"]
    /\ sent = [attempts |-> 1, posts |-> 0]

====
